---- MODULE Spec2Model ----
(***************************************************************************)
(* State machine of the project/agent wizard:                              *)
(*   ProjectForm   (src/components/wizard/ProjectForm.tsx)                 *)
(*   ProjectWizard (src/unnamed/part_001)                                  *)
(*   AgentForm     (src/unnamed/part_000, lines 1-350)                     *)
(* React state cells and react-hook-form values are the variables; every   *)
(* event handler, and every continuation of an awaited timer, is one       *)
(* action.  A value a handler reads from its render closure after an await *)
(* is the value captured when the handler started.                         *)
(***************************************************************************)
EXTENDS Integers, Sequences, FiniteSets, TLC

\* ------------------------------------------------------------ bounds
\* Number of entries of the sport catalog that the model lets the user pick.
MaxSports == 2
\* Cap on the length of the agent registry (the code has none).
MaxAgents == 2
\* Number of entries of the sport catalog offered by the dialog that has the
\* Select All button.
MaxSelect == 3

\* ------------------------------------------------------------ catalogs
MACHINA == "machina-core"
SPORTRADAR == "sportradar"
DataSourceIds == {MACHINA, SPORTRADAR}

SportsCatalog ==
  << "football", "soccer", "basketball", "baseball", "volleyball",
     "handball", "mma", "formula1", "hockey", "rugby" >>
Sports == {SportsCatalog[i] : i \in 1..MaxSports}
\* sports.map(sport => sport.id) of the dialog with the Select All button
SelectUniverse == [i \in 1..MaxSelect |-> SportsCatalog[i]]
SelectSports == {SelectUniverse[i] : i \in 1..MaxSelect}

NULL == "null"
SP == " "
\* Text typed into the name field and the API-key field, as character sequences.
NameInputs == {<<>>, <<SP>>, <<"a">>}
ApiKeyInputs == {<<>>, <<SP>>, <<"k">>}

AgentTypes == {"chat", "content"}
\* tools / outputFormats catalog entries with their `disabled` flag
ToolDisabled ==
  [search |-> FALSE, custom |-> TRUE, sentiment |-> TRUE, crm |-> TRUE, memory |-> TRUE]
ToolIds == DOMAIN ToolDisabled
FormatDisabled == [text |-> FALSE, json |-> FALSE, chat |-> TRUE]
FormatIds == DOMAIN FormatDisabled

\* titles of the toasts the wizard shows (the catch branches never run: the
\* awaited timers do not reject)
TOAST_NONE == "none"
TOAST_CONNECTED == "Sportradar Connected"
TOAST_PROJECT == "Project created successfully!"
TOAST_SYNC == "Data synchronization completed"
TOAST_AGENT == "Agent created successfully!"
TOAST_DELETED == "Agent deleted"

\* ------------------------------------------------------------ state
VARIABLES
  \* react-hook-form values and errors of projectForm
  projectName, dataSources, sportSelections, sportError,
  \* ProjectForm component state
  openModals, currentDataSource, tempSelectedSports,
  isApiKeyModalOpen, apiKey, sportradarConnected, isLoading,
  \* closure of the handleApiKeySubmit call that is awaiting its timer
  capturedDataSources,
  \* ProjectWizard component state
  projectCreated, isCreatingAgent, isSubmitting, agents, syncStatus,
  \* pending timers of onSubmitProject / onSubmitAgent and their closures
  pending, pendingData, pendingAgents, syncScheduled, createDueFirst,
  \* agentForm values and AgentForm component state
  agentType, tools, outputFormat, currentStep,
  \* title of the toast shown last
  toast,
  \* history: ids ever given to an agent, and the last operation performed
  issued, lastOp

formVars == <<projectName, dataSources, sportSelections, sportError>>
pfVars == <<openModals, currentDataSource, tempSelectedSports,
            isApiKeyModalOpen, apiKey, sportradarConnected, isLoading,
            capturedDataSources>>
wizVars == <<projectCreated, isCreatingAgent, isSubmitting, agents, syncStatus,
             pending, pendingData, pendingAgents, syncScheduled, createDueFirst>>
agentVars == <<agentType, tools, outputFormat, currentStep>>
vars == <<formVars, pfVars, wizVars, agentVars, toast, issued, lastOp>>

\* ------------------------------------------------------------ helpers
\* Array.prototype.includes
Includes(s, x) == \E i \in 1..Len(s) : s[i] = x
\* Array.prototype.filter((id) => id !== x)
FilterOut(s, x) == SelectSeq(s, LAMBDA y : y # x)

\* String.prototype.trim on a character sequence
RECURSIVE TrimLeft(_)
TrimLeft(s) == IF s # <<>> /\ Head(s) = SP THEN TrimLeft(Tail(s)) ELSE s
RECURSIVE TrimRight(_)
TrimRight(s) ==
  IF s # <<>> /\ s[Len(s)] = SP THEN TrimRight(SubSeq(s, 1, Len(s) - 1)) ELSE s
Trim(s) == TrimRight(TrimLeft(s))

\* watchSportSelections[id] || []
SportsOf(sel, id) == IF id \in DOMAIN sel THEN sel[id] ELSE <<>>
\* { ...sel, [id]: v }
WithEntry(sel, id, v) ==
  [k \in (DOMAIN sel) \cup {id} |-> IF k = id THEN v ELSE sel[k]]
\* delete sel[id]
WithoutEntry(sel, id) == [k \in (DOMAIN sel) \ {id} |-> sel[k]]

EmptySelections == [k \in {} |-> <<>>]

\* defaultValues of agentForm
EmptyAgentData == [agentType |-> NULL, tools |-> <<>>, outputFormat |-> NULL]

\* lastOp: every operation of the project form leaves its name and argument;
\* on the dashboard only a rejected commit leaves its name.
Op(name, arg) == [op |-> name, arg |-> arg]
Dashboard == Op("dashboard", "done")

\* phase of the orchestrator, from projectCreated / syncStatus
Phase ==
  IF ~projectCreated THEN "Configuring"
  ELSE IF syncStatus = "syncing" THEN "Syncing" ELSE "Ready"

\* credential gate of the sportradar source
Gate ==
  IF sportradarConnected THEN "Connected"
  ELSE IF isLoading THEN "Verifying" ELSE "Locked"

\* ------------------------------------------------------------ validation
\* hasErrors of the validation effect
HasErrors(ds, sel) == \E i \in 1..Len(ds) : Len(SportsOf(sel, ds[i])) = 0

\* The validation effect: the value of errors.sportSelections after it ran.
ValidationEffect(ds, sel) == IF Len(ds) = 0 THEN FALSE ELSE HasErrors(ds, sel)

\* projectFormSchema
SchemaNameOk(name) == Len(name) >= 1
\* mutant: the min(1) of dataSources is lost
SchemaSourcesOk_NoMin(ds) == Len(ds) >= 0
SchemaSourcesOk(ds) == Len(ds) >= 1
SchemaSportsOk(sel) == \A k \in DOMAIN sel : Len(sel[k]) >= 1
ProjectSchemaValid(name, ds, sel) ==
  SchemaNameOk(name) /\ SchemaSourcesOk(ds) /\ SchemaSportsOk(sel)

\* mutant: the button is not disabled while submitting
CreateProjectDisabled_NoSubmitting ==
  \A k \in DOMAIN sportSelections : Len(sportSelections[k]) = 0

\* mutant: the button is disabled only while submitting
CreateProjectDisabled_OnlySubmitting == isSubmitting

\* disabled condition of the Create Project button
CreateProjectDisabled ==
  isSubmitting \/ \A k \in DOMAIN sportSelections : Len(sportSelections[k]) = 0

\* ------------------------------------------------------------ rendering
\* isActive of a data-source card
IsActive(id) == id = MACHINA \/ sportradarConnected
\* isSelected && isActive: the sport trigger, dialog and badges of source id
\* are rendered (by ProjectForm, which is mounted until the project is created)
SportsSelectable(id) == ~projectCreated /\ Includes(dataSources, id) /\ IsActive(id)
\* the sport dialog of source id is on screen
SportDialogShown(id) == SportsSelectable(id) /\ openModals[id]
\* the API key dialog is on screen
ApiDialogShown == ~projectCreated /\ ~sportradarConnected /\ isApiKeyModalOpen
\* a modal dialog blocks everything outside it
ModalShown == ApiDialogShown \/ \E id \in DataSourceIds : SportDialogShown(id)
\* the project form is mounted and no modal is in the way
FormFree == ~projectCreated /\ ~ModalShown

\* ------------------------------------------------------------ initial state
Init ==
  /\ projectName = <<>>
  /\ dataSources = <<MACHINA>>
  /\ sportSelections = EmptySelections
  /\ sportError = ValidationEffect(<<MACHINA>>, EmptySelections)
  /\ openModals = [id \in DataSourceIds |-> FALSE]
  /\ currentDataSource = NULL
  /\ tempSelectedSports = <<>>
  /\ isApiKeyModalOpen = FALSE
  /\ apiKey = <<>>
  /\ sportradarConnected = FALSE
  /\ isLoading = FALSE
  /\ capturedDataSources = <<>>
  /\ projectCreated = FALSE
  /\ isCreatingAgent = FALSE
  /\ isSubmitting = FALSE
  /\ agents = <<>>
  /\ syncStatus = "syncing"
  /\ pending = "none"
  /\ pendingData = EmptyAgentData
  /\ pendingAgents = <<>>
  /\ syncScheduled = FALSE
  /\ createDueFirst = FALSE
  /\ agentType = NULL
  /\ tools = <<>>
  /\ outputFormat = NULL
  /\ currentStep = 1
  /\ toast = TOAST_NONE
  /\ issued = {}
  /\ lastOp = Op("init", NULL)

\* ------------------------------------------------------------ project form
\* Input onChange of the projectName field
setName(s) ==
  /\ FormFree
  /\ s # projectName
  /\ projectName' = s
  /\ lastOp' = Op("setName", NULL)
  /\ UNCHANGED <<dataSources, sportSelections, sportError, pfVars, wizVars,
                 agentVars, issued>>
  /\ UNCHANGED toast

\* mutant: the sport selections are not pruned on removal
handleDataSourceChange_NoPrune(sourceId) ==
  /\ FormFree
  /\ lastOp' = Op("toggleDataSource", sourceId)
  /\ IF sourceId = SPORTRADAR /\ ~sportradarConnected
       THEN UNCHANGED <<dataSources, sportSelections, sportError>>
       ELSE IF Includes(dataSources, sourceId)
         THEN /\ dataSources' = FilterOut(dataSources, sourceId)
              /\ sportSelections' = sportSelections
              /\ sportError' = ValidationEffect(dataSources', sportSelections')
         ELSE /\ dataSources' = Append(dataSources, sourceId)
              /\ sportSelections' = sportSelections
              /\ sportError' = ValidationEffect(dataSources', sportSelections')
  /\ UNCHANGED <<projectName, pfVars, wizVars, agentVars, issued>>
  /\ UNCHANGED toast

\* mutant: the early return on a locked sportradar is lost
handleDataSourceChange_NoGate(sourceId) ==
  /\ FormFree
  /\ lastOp' = Op("toggleDataSource", sourceId)
  /\ IF Includes(dataSources, sourceId)
       THEN /\ dataSources' = FilterOut(dataSources, sourceId)
            /\ sportSelections' = WithoutEntry(sportSelections, sourceId)
            /\ sportError' = ValidationEffect(dataSources', sportSelections')
       ELSE /\ dataSources' = Append(dataSources, sourceId)
            /\ sportSelections' = sportSelections
            /\ sportError' = ValidationEffect(dataSources', sportSelections')
  /\ UNCHANGED <<projectName, pfVars, wizVars, agentVars, issued>>
  /\ UNCHANGED toast

\* mutant: removing sportradar locks its gate again
handleDataSourceChange_Relock(sourceId) ==
  /\ FormFree
  /\ lastOp' = Op("toggleDataSource", sourceId)
  /\ IF sourceId = SPORTRADAR /\ ~sportradarConnected
       THEN UNCHANGED <<dataSources, sportSelections, sportError, sportradarConnected>>
       ELSE IF Includes(dataSources, sourceId)
         THEN /\ dataSources' = FilterOut(dataSources, sourceId)
              /\ sportSelections' = WithoutEntry(sportSelections, sourceId)
              /\ sportError' = ValidationEffect(dataSources', sportSelections')
              /\ sportradarConnected' = (sportradarConnected /\ sourceId # SPORTRADAR)
         ELSE /\ dataSources' = Append(dataSources, sourceId)
              /\ sportSelections' = sportSelections
              /\ sportError' = ValidationEffect(dataSources', sportSelections')
              /\ sportradarConnected' = sportradarConnected
  /\ UNCHANGED <<projectName, openModals, currentDataSource, tempSelectedSports,
                 isApiKeyModalOpen, apiKey, isLoading, capturedDataSources,
                 wizVars, agentVars, issued>>
  /\ UNCHANGED toast

\* handleDataSourceChange, reached by a click on the card of sourceId.  The
\* card passes the click on only when isActive, which is the condition of the
\* handler's own early return.
handleDataSourceChange(sourceId) ==
  /\ FormFree
  /\ lastOp' = Op("toggleDataSource", sourceId)
  /\ IF sourceId = SPORTRADAR /\ ~sportradarConnected
       THEN UNCHANGED <<dataSources, sportSelections, sportError>>
       ELSE IF Includes(dataSources, sourceId)
         THEN /\ dataSources' = FilterOut(dataSources, sourceId)
              /\ sportSelections' = WithoutEntry(sportSelections, sourceId)
              /\ sportError' = ValidationEffect(dataSources', sportSelections')
         ELSE /\ dataSources' = Append(dataSources, sourceId)
              /\ sportSelections' = sportSelections
              /\ sportError' = ValidationEffect(dataSources', sportSelections')
  /\ UNCHANGED <<projectName, pfVars, wizVars, agentVars, issued>>
  /\ UNCHANGED toast

\* mutant: the buffer is not seeded from the committed selection
openSportDialog_NoSeed(dataSourceId) ==
  /\ FormFree
  /\ SportsSelectable(dataSourceId)
  /\ currentDataSource' = dataSourceId
  /\ tempSelectedSports' = <<>>
  /\ openModals' = [openModals EXCEPT ![dataSourceId] = TRUE]
  /\ lastOp' = Op("openSportDialog", dataSourceId)
  /\ UNCHANGED <<formVars, isApiKeyModalOpen, apiKey, sportradarConnected,
                 isLoading, capturedDataSources, wizVars, agentVars, issued>>
  /\ UNCHANGED toast

\* handleDialogOpen(true, dataSourceId): the Choose Sports trigger
openSportDialog(dataSourceId) ==
  /\ FormFree
  /\ SportsSelectable(dataSourceId)
  /\ currentDataSource' = dataSourceId
  /\ tempSelectedSports' = SportsOf(sportSelections, dataSourceId)
  /\ openModals' = [openModals EXCEPT ![dataSourceId] = TRUE]
  /\ lastOp' = Op("openSportDialog", dataSourceId)
  /\ UNCHANGED <<formVars, isApiKeyModalOpen, apiKey, sportradarConnected,
                 isLoading, capturedDataSources, wizVars, agentVars, issued>>
  /\ UNCHANGED toast

\* handleDialogOpen(false, dataSourceId): Cancel, Esc or a click outside
closeSportDialog(dataSourceId) ==
  /\ SportDialogShown(dataSourceId)
  /\ currentDataSource' = NULL
  /\ tempSelectedSports' = <<>>
  /\ openModals' = [openModals EXCEPT ![dataSourceId] = FALSE]
  /\ lastOp' = Op("closeSportDialog", dataSourceId)
  /\ UNCHANGED <<formVars, isApiKeyModalOpen, apiKey, sportradarConnected,
                 isLoading, capturedDataSources, wizVars, agentVars, issued>>
  /\ UNCHANGED toast

\* mutant: the dialog is bound live to the project's selection
handleSportSelect_Live(sportId) ==
  /\ \E id \in DataSourceIds : SportDialogShown(id)
  /\ tempSelectedSports' =
       IF Includes(tempSelectedSports, sportId)
         THEN FilterOut(tempSelectedSports, sportId)
         ELSE Append(tempSelectedSports, sportId)
  /\ sportSelections' =
       WithEntry(sportSelections, currentDataSource, tempSelectedSports')
  /\ lastOp' = Op("toggleTempSport", sportId)
  /\ UNCHANGED <<projectName, dataSources, sportError, openModals,
                 currentDataSource, isApiKeyModalOpen,
                 apiKey, sportradarConnected, isLoading, capturedDataSources,
                 wizVars, agentVars, issued>>
  /\ UNCHANGED toast

\* mutant: a click always appends
handleSportSelect_AlwaysAppend(sportId) ==
  /\ \E id \in DataSourceIds : SportDialogShown(id)
  /\ tempSelectedSports' = Append(tempSelectedSports, sportId)
  /\ lastOp' = Op("toggleTempSport", sportId)
  /\ UNCHANGED <<formVars, openModals, currentDataSource, isApiKeyModalOpen,
                 apiKey, sportradarConnected, isLoading, capturedDataSources,
                 wizVars, agentVars, issued>>
  /\ UNCHANGED toast

\* mutant: a click on a selected row leaves it selected
handleSportSelect_NeverRemoves(sportId) ==
  /\ \E id \in DataSourceIds : SportDialogShown(id)
  /\ tempSelectedSports' =
       IF Includes(tempSelectedSports, sportId)
         THEN tempSelectedSports
         ELSE Append(tempSelectedSports, sportId)
  /\ lastOp' = Op("toggleTempSport", sportId)
  /\ UNCHANGED <<formVars, openModals, currentDataSource, isApiKeyModalOpen,
                 apiKey, sportradarConnected, isLoading, capturedDataSources,
                 wizVars, agentVars, issued>>
  /\ UNCHANGED toast

\* handleSportSelect: a click on a row of the open sport dialog
handleSportSelect(sportId) ==
  /\ \E id \in DataSourceIds : SportDialogShown(id)
  /\ tempSelectedSports' =
       IF Includes(tempSelectedSports, sportId)
         THEN FilterOut(tempSelectedSports, sportId)
         ELSE Append(tempSelectedSports, sportId)
  /\ lastOp' = Op("toggleTempSport", sportId)
  /\ UNCHANGED <<formVars, openModals, currentDataSource, isApiKeyModalOpen,
                 apiKey, sportradarConnected, isLoading, capturedDataSources,
                 wizVars, agentVars, issued>>
  /\ UNCHANGED toast

\* mutant: Select All never clears
handleSelectAll_NeverClears ==
  /\ \E id \in DataSourceIds : SportDialogShown(id)
  /\ tempSelectedSports' = SelectUniverse
  /\ lastOp' =
       IF lastOp.op = "selectAll" THEN Op("selectAllAgain", lastOp.arg)
       ELSE Op("selectAll",
               IF Len(tempSelectedSports) = Len(SelectUniverse)
                 THEN "full" ELSE "partial")
  /\ UNCHANGED <<formVars, openModals, currentDataSource, isApiKeyModalOpen,
                 apiKey, sportradarConnected, isLoading, capturedDataSources,
                 wizVars, agentVars, issued>>
  /\ UNCHANGED toast

\* handleSelectAll: the Select All button of the sport dialog.  lastOp tells
\* the first application from a second one in a row, and keeps whether the
\* buffer was the whole universe before the first.
handleSelectAll ==
  /\ \E id \in DataSourceIds : SportDialogShown(id)
  /\ tempSelectedSports' =
       IF Len(tempSelectedSports) = Len(SelectUniverse) THEN <<>> ELSE SelectUniverse
  /\ lastOp' =
       IF lastOp.op = "selectAll" THEN Op("selectAllAgain", lastOp.arg)
       ELSE Op("selectAll",
               IF Len(tempSelectedSports) = Len(SelectUniverse)
                 THEN "full" ELSE "partial")
  /\ UNCHANGED <<formVars, openModals, currentDataSource, isApiKeyModalOpen,
                 apiKey, sportradarConnected, isLoading, capturedDataSources,
                 wizVars, agentVars, issued>>
  /\ UNCHANGED toast

\* mutant: Confirm Selection is not disabled on an empty buffer
handleConfirm_NoGuard ==
  /\ \E id \in DataSourceIds : SportDialogShown(id)
  /\ IF currentDataSource # NULL
       THEN /\ sportSelections' =
                 WithEntry(sportSelections, currentDataSource, tempSelectedSports)
            /\ sportError' = ValidationEffect(dataSources, sportSelections')
            /\ openModals' = [openModals EXCEPT ![currentDataSource] = FALSE]
       ELSE UNCHANGED <<sportSelections, sportError, openModals>>
  /\ lastOp' = Op("confirmSportSelection", currentDataSource)
  /\ UNCHANGED <<projectName, dataSources, currentDataSource, tempSelectedSports,
                 isApiKeyModalOpen, apiKey, sportradarConnected, isLoading,
                 capturedDataSources, wizVars, agentVars, issued>>
  /\ UNCHANGED toast

\* handleConfirm: the Confirm Selection button (disabled on an empty buffer)
handleConfirm ==
  /\ \E id \in DataSourceIds : SportDialogShown(id)
  /\ Len(tempSelectedSports) # 0
  /\ IF currentDataSource # NULL
       THEN /\ sportSelections' =
                 WithEntry(sportSelections, currentDataSource, tempSelectedSports)
            /\ sportError' = ValidationEffect(dataSources, sportSelections')
            /\ openModals' = [openModals EXCEPT ![currentDataSource] = FALSE]
       ELSE UNCHANGED <<sportSelections, sportError, openModals>>
  /\ lastOp' = Op("confirmSportSelection", currentDataSource)
  /\ UNCHANGED <<projectName, dataSources, currentDataSource, tempSelectedSports,
                 isApiKeyModalOpen, apiKey, sportradarConnected, isLoading,
                 capturedDataSources, wizVars, agentVars, issued>>
  /\ UNCHANGED toast

\* onClick of the badge of sportId under source dataSourceId
removeSportBadge(dataSourceId, sportId) ==
  /\ FormFree
  /\ SportsSelectable(dataSourceId)
  /\ Includes(SportsOf(sportSelections, dataSourceId), sportId)
  /\ sportSelections' =
       WithEntry(sportSelections, dataSourceId,
                 FilterOut(SportsOf(sportSelections, dataSourceId), sportId))
  /\ sportError' = ValidationEffect(dataSources, sportSelections')
  /\ lastOp' = Op("removeSportBadge", dataSourceId)
  /\ UNCHANGED <<projectName, dataSources, pfVars, wizVars, agentVars, issued>>
  /\ UNCHANGED toast

\* ------------------------------------------------------------ credential gate
\* onOpenChange = setIsApiKeyModalOpen of the API key dialog
setIsApiKeyModalOpen(open) ==
  /\ IF open THEN FormFree /\ ~sportradarConnected ELSE ApiDialogShown
  /\ isApiKeyModalOpen' = open
  /\ lastOp' = Op(IF open THEN "openApiKeyDialog" ELSE "closeApiKeyDialog", NULL)
  /\ UNCHANGED <<formVars, openModals, currentDataSource, tempSelectedSports,
                 apiKey, sportradarConnected, isLoading, capturedDataSources,
                 wizVars, agentVars, issued>>
  /\ UNCHANGED toast

\* Input onChange of the API key field
setApiKey(s) ==
  /\ ApiDialogShown
  /\ s # apiKey
  /\ apiKey' = s
  /\ lastOp' = Op("setApiKey", NULL)
  /\ UNCHANGED <<formVars, openModals, currentDataSource, tempSelectedSports,
                 isApiKeyModalOpen, sportradarConnected, isLoading,
                 capturedDataSources, wizVars, agentVars, issued>>
  /\ UNCHANGED toast

\* mutant: the key is tested without trim()
handleApiKeySubmit_NoTrim ==
  /\ ApiDialogShown
  /\ ~isLoading
  /\ IF apiKey = <<>>
       THEN /\ lastOp' = Op("submitCredential", "rejected")
            /\ UNCHANGED <<isLoading, capturedDataSources, createDueFirst>>
       ELSE /\ lastOp' = Op("submitCredential", "accepted")
            /\ isLoading' = TRUE
            /\ capturedDataSources' = dataSources
            /\ createDueFirst' \in (IF pending = "project" THEN BOOLEAN ELSE {FALSE})
  /\ UNCHANGED <<formVars, openModals, currentDataSource, tempSelectedSports,
                 isApiKeyModalOpen, apiKey, sportradarConnected,
                 projectCreated, isCreatingAgent, isSubmitting, agents,
                 syncStatus, pending, pendingData, pendingAgents, syncScheduled,
                 agentVars, issued>>
  /\ UNCHANGED toast

\* mutant: the Connect button is not disabled while isLoading
handleApiKeySubmit_NoLoadingGuard ==
  /\ ApiDialogShown
  /\ IF Trim(apiKey) = <<>>
       THEN /\ lastOp' = Op("submitCredential", "rejected")
            /\ UNCHANGED <<isLoading, capturedDataSources, createDueFirst>>
       ELSE /\ lastOp' = Op("submitCredential", "accepted")
            /\ isLoading' = TRUE
            /\ capturedDataSources' = dataSources
            /\ createDueFirst' \in (IF pending = "project" THEN BOOLEAN ELSE {FALSE})
  /\ UNCHANGED <<formVars, openModals, currentDataSource, tempSelectedSports,
                 isApiKeyModalOpen, apiKey, sportradarConnected,
                 projectCreated, isCreatingAgent, isSubmitting, agents,
                 syncStatus, pending, pendingData, pendingAgents, syncScheduled,
                 agentVars, issued>>
  /\ UNCHANGED toast

\* handleApiKeySubmit up to its await.  The Connect button is disabled while
\* isLoading; the handler returns early on a blank key.  watchDataSources of
\* the render that created the handler stays in its closure.
handleApiKeySubmit ==
  /\ ApiDialogShown
  /\ ~isLoading
  /\ IF Trim(apiKey) = <<>>
       THEN /\ lastOp' = Op("submitCredential", "rejected")
            /\ UNCHANGED <<isLoading, capturedDataSources, createDueFirst>>
       ELSE /\ lastOp' = Op("submitCredential", "accepted")
            /\ isLoading' = TRUE
            /\ capturedDataSources' = dataSources
            \* 1000 ms against what is left of the 1500 ms of onSubmitProject
            /\ createDueFirst' \in (IF pending = "project" THEN BOOLEAN ELSE {FALSE})
  /\ UNCHANGED <<formVars, openModals, currentDataSource, tempSelectedSports,
                 isApiKeyModalOpen, apiKey, sportradarConnected,
                 projectCreated, isCreatingAgent, isSubmitting, agents,
                 syncStatus, pending, pendingData, pendingAgents, syncScheduled,
                 agentVars, issued>>
  /\ UNCHANGED toast

\* mutant: setSportradarConnected(true) is lost
handleApiKeySubmitResolve_NoConnect ==
  /\ isLoading
  /\ ~(pending = "project" /\ createDueFirst)
  /\ sportradarConnected' = sportradarConnected
  /\ IF ~Includes(capturedDataSources, SPORTRADAR)
       THEN /\ dataSources' = Append(capturedDataSources, SPORTRADAR)
            /\ sportError' = IF projectCreated THEN sportError
                             ELSE ValidationEffect(dataSources', sportSelections)
       ELSE UNCHANGED <<dataSources, sportError>>
  /\ isApiKeyModalOpen' = FALSE
  /\ apiKey' = <<>>
  /\ isLoading' = FALSE
  /\ capturedDataSources' = <<>>
  /\ createDueFirst' = FALSE
  /\ lastOp' = Op("credentialResolved", NULL)
  /\ UNCHANGED <<projectName, sportSelections, openModals, currentDataSource,
                 tempSelectedSports, projectCreated, isCreatingAgent,
                 isSubmitting, agents, syncStatus, pending, pendingData,
                 pendingAgents, syncScheduled, agentVars, issued>>
  /\ toast' = TOAST_CONNECTED

\* handleApiKeySubmit after its await (the 1000 ms timer fired).  The
\* validation effect runs only while ProjectForm is mounted.
handleApiKeySubmitResolve ==
  /\ isLoading
  /\ ~(pending = "project" /\ createDueFirst)
  /\ sportradarConnected' = TRUE
  /\ IF ~Includes(capturedDataSources, SPORTRADAR)
       THEN /\ dataSources' = Append(capturedDataSources, SPORTRADAR)
            /\ sportError' = IF projectCreated THEN sportError
                             ELSE ValidationEffect(dataSources', sportSelections)
       ELSE UNCHANGED <<dataSources, sportError>>
  /\ isApiKeyModalOpen' = FALSE
  /\ apiKey' = <<>>
  /\ isLoading' = FALSE
  /\ capturedDataSources' = <<>>
  /\ createDueFirst' = FALSE
  /\ lastOp' = Op("credentialResolved", NULL)
  /\ UNCHANGED <<projectName, sportSelections, openModals, currentDataSource,
                 tempSelectedSports, projectCreated, isCreatingAgent,
                 isSubmitting, agents, syncStatus, pending, pendingData,
                 pendingAgents, syncScheduled, agentVars, issued>>
  /\ toast' = TOAST_CONNECTED

\* ------------------------------------------------------------ project submit
\* projectForm.handleSubmit(onSubmitProject) up to the await: the resolver
\* replaces the form errors by the schema's; onSubmitProject runs when there
\* are none.
submitProject ==
  /\ FormFree
  /\ ~CreateProjectDisabled
  /\ IF ProjectSchemaValid(projectName, dataSources, sportSelections)
       THEN /\ isSubmitting' = TRUE
            /\ pending' = "project"
            /\ sportError' = FALSE
            /\ lastOp' = Op("submitProject", "accepted")
       ELSE /\ sportError' = ~SchemaSportsOk(sportSelections)
            /\ lastOp' = Op("submitProject", "rejected")
            /\ UNCHANGED <<isSubmitting, pending>>
  /\ createDueFirst' = FALSE
  /\ UNCHANGED <<projectName, dataSources, sportSelections, pfVars,
                 projectCreated, isCreatingAgent, agents, syncStatus,
                 pendingData, pendingAgents, syncScheduled, agentVars, issued>>
  /\ UNCHANGED toast

\* onSubmitProject after its await (the 1500 ms timer fired)
onSubmitProjectResolve ==
  /\ pending = "project"
  /\ isLoading => createDueFirst
  /\ projectCreated' = TRUE
  /\ syncScheduled' = TRUE
  /\ isSubmitting' = FALSE
  /\ pending' = "none"
  /\ lastOp' = Op("projectCreated", NULL)
  /\ UNCHANGED <<formVars, pfVars, isCreatingAgent, agents, syncStatus,
                 pendingData, pendingAgents, createDueFirst, agentVars, issued>>
  /\ toast' = TOAST_PROJECT

\* mutant: the sync timer fires without setSyncStatus('completed')
syncCompleted_NoStatus ==
  /\ syncScheduled
  /\ ~isLoading
  /\ syncStatus' = syncStatus
  /\ syncScheduled' = FALSE
  /\ lastOp' = Dashboard
  /\ UNCHANGED <<formVars, pfVars, projectCreated, isCreatingAgent,
                 isSubmitting, agents, pending, pendingData, pendingAgents,
                 createDueFirst, agentVars, issued>>
  /\ toast' = TOAST_SYNC

\* the 3000 ms sync timer; a verification started before the project was
\* created (1000 ms) has fired by then
syncCompleted ==
  /\ syncScheduled
  /\ ~isLoading
  /\ syncStatus' = "completed"
  /\ syncScheduled' = FALSE
  /\ lastOp' = Dashboard
  /\ UNCHANGED <<formVars, pfVars, projectCreated, isCreatingAgent,
                 isSubmitting, agents, pending, pendingData, pendingAgents,
                 createDueFirst, agentVars, issued>>
  /\ toast' = TOAST_SYNC

\* ------------------------------------------------------------ agent sub-flow
\* `agent-${n}`
AgentId(n) == <<"agent", n>>
\* the ids a registry of at most MaxAgents entries can hold
AgentIds == {AgentId(n) : n \in 1..MaxAgents}

\* mutant: the button is not disabled while syncing
startAgentCreation_NoSyncGuard ==
  /\ projectCreated
  /\ isCreatingAgent' = TRUE
  /\ currentStep' = IF isCreatingAgent THEN currentStep ELSE 1
  /\ lastOp' = Dashboard
  /\ UNCHANGED <<formVars, pfVars, projectCreated, isSubmitting, agents,
                 syncStatus, pending, pendingData, pendingAgents, syncScheduled,
                 createDueFirst, agentType, tools, outputFormat, issued>>
  /\ UNCHANGED toast

\* onClick of Create New Agent (disabled while syncing: a click then does
\* nothing).  AgentForm mounts,
\* with currentStep = useState(1), when isCreatingAgent turns true; while it is
\* unmounted its state does not exist and currentStep is kept at 1.
startAgentCreation ==
  /\ projectCreated
  /\ IF syncStatus = "syncing"
       THEN /\ lastOp' = Op("startAgentCreation", "rejected")
            /\ UNCHANGED <<isCreatingAgent, currentStep>>
       ELSE /\ isCreatingAgent' = TRUE
            /\ currentStep' = IF isCreatingAgent THEN currentStep ELSE 1
            /\ lastOp' = Dashboard
  /\ UNCHANGED <<formVars, pfVars, projectCreated, isSubmitting, agents,
                 syncStatus, pending, pendingData, pendingAgents, syncScheduled,
                 createDueFirst, agentType, tools, outputFormat, issued>>
  /\ UNCHANGED toast

\* mutant: Cancel leads back to the project form
cancelAgentCreation_ToProject ==
  /\ projectCreated
  /\ isCreatingAgent
  /\ ~isSubmitting
  /\ isCreatingAgent' = FALSE
  /\ projectCreated' = FALSE
  /\ currentStep' = 1
  /\ lastOp' = Dashboard
  /\ UNCHANGED <<formVars, pfVars, isSubmitting, agents,
                 syncStatus, pending, pendingData, pendingAgents, syncScheduled,
                 createDueFirst, agentType, tools, outputFormat, issued>>
  /\ UNCHANGED toast

\* onClick of Cancel in the agent form (disabled while isSubmitting); AgentForm
\* unmounts
cancelAgentCreation ==
  /\ projectCreated
  /\ isCreatingAgent
  /\ ~isSubmitting
  /\ isCreatingAgent' = FALSE
  /\ currentStep' = 1
  /\ lastOp' = Dashboard
  /\ UNCHANGED <<formVars, pfVars, projectCreated, isSubmitting, agents,
                 syncStatus, pending, pendingData, pendingAgents, syncScheduled,
                 createDueFirst, agentType, tools, outputFormat, issued>>
  /\ UNCHANGED toast

\* mutant: nextStep without Math.min
nextStep_NoClamp ==
  /\ projectCreated
  /\ isCreatingAgent
  /\ currentStep' = currentStep + 1
  /\ lastOp' = Dashboard
  /\ UNCHANGED <<formVars, pfVars, wizVars, agentType, tools, outputFormat, issued>>
  /\ UNCHANGED toast

\* nextStep
nextStep ==
  /\ projectCreated
  /\ isCreatingAgent
  /\ currentStep' = IF currentStep + 1 < 3 THEN currentStep + 1 ELSE 3
  /\ lastOp' = Dashboard
  /\ UNCHANGED <<formVars, pfVars, wizVars, agentType, tools, outputFormat, issued>>
  /\ UNCHANGED toast

\* prevStep
prevStep ==
  /\ projectCreated
  /\ isCreatingAgent
  /\ currentStep' = IF currentStep - 1 > 1 THEN currentStep - 1 ELSE 1
  /\ lastOp' = Dashboard
  /\ UNCHANGED <<formVars, pfVars, wizVars, agentType, tools, outputFormat, issued>>
  /\ UNCHANGED toast

\* onClick of an agent type card (step 1)
setAgentType(t) ==
  /\ projectCreated
  /\ isCreatingAgent
  /\ currentStep = 1
  /\ agentType' = t
  /\ lastOp' = Dashboard
  /\ UNCHANGED <<formVars, pfVars, wizVars, tools, outputFormat, currentStep, issued>>
  /\ UNCHANGED toast

\* mutant: the tool card ignores tool.disabled
toggleAgentTool_NoDisabled(toolId) ==
  /\ projectCreated
  /\ isCreatingAgent
  /\ currentStep = 2
  /\ tools' =
       IF Includes(tools, toolId) THEN FilterOut(tools, toolId)
       ELSE Append(tools, toolId)
  /\ lastOp' = Dashboard
  /\ UNCHANGED <<formVars, pfVars, wizVars, agentType, outputFormat, currentStep, issued>>
  /\ UNCHANGED toast

\* onClick of a tool card (step 2)
toggleAgentTool(toolId) ==
  /\ projectCreated
  /\ isCreatingAgent
  /\ currentStep = 2
  /\ tools' =
       IF ToolDisabled[toolId] THEN tools
       ELSE IF Includes(tools, toolId) THEN FilterOut(tools, toolId)
       ELSE Append(tools, toolId)
  /\ lastOp' = Dashboard
  /\ UNCHANGED <<formVars, pfVars, wizVars, agentType, outputFormat, currentStep, issued>>
  /\ UNCHANGED toast

\* onClick of an output format card (step 3)
setAgentOutputFormat(formatId) ==
  /\ projectCreated
  /\ isCreatingAgent
  /\ currentStep = 3
  /\ outputFormat' = IF FormatDisabled[formatId] THEN outputFormat ELSE formatId
  /\ lastOp' = Dashboard
  /\ UNCHANGED <<formVars, pfVars, wizVars, agentType, tools, currentStep, issued>>
  /\ UNCHANGED toast

\* agentFormSchema
AgentSchemaValid(t, f) == t \in AgentTypes /\ f \in FormatIds

\* disabled condition of the Create Agent button
CreateAgentDisabled == isSubmitting \/ agentType = NULL \/ outputFormat = NULL

\* mutant: neither the button nor the schema checks the draft
commitAgent_Unchecked ==
  /\ projectCreated
  /\ isCreatingAgent
  /\ ~isSubmitting
  /\ Len(agents) < MaxAgents
  /\ isSubmitting' = TRUE
  /\ pending' = "agent"
  /\ pendingData' = [agentType |-> agentType, tools |-> tools,
                     outputFormat |-> outputFormat]
  /\ pendingAgents' = agents
  /\ lastOp' = Dashboard
  /\ UNCHANGED <<formVars, pfVars, projectCreated, isCreatingAgent, agents,
                 syncStatus, syncScheduled, createDueFirst, agentVars, issued>>
  /\ UNCHANGED toast

\* agentForm.handleSubmit(onSubmitAgent) up to the await; data and agents
\* stay in the closure of onSubmitAgent
commitAgent ==
  /\ projectCreated
  /\ isCreatingAgent
  /\ ~isSubmitting
  /\ Len(agents) < MaxAgents
  /\ IF ~CreateAgentDisabled /\ AgentSchemaValid(agentType, outputFormat)
       THEN /\ isSubmitting' = TRUE
            /\ pending' = "agent"
            /\ pendingData' = [agentType |-> agentType, tools |-> tools,
                               outputFormat |-> outputFormat]
            /\ pendingAgents' = agents
            /\ lastOp' = Dashboard
       ELSE /\ lastOp' = Op("commitAgent", "rejected")
            /\ UNCHANGED <<isSubmitting, pending, pendingData, pendingAgents>>
  /\ UNCHANGED <<formVars, pfVars, projectCreated, isCreatingAgent, agents,
                 syncStatus, syncScheduled, createDueFirst, agentVars, issued>>
  /\ UNCHANGED toast

\* mutant: agentForm.reset() is lost
onSubmitAgentResolve_NoReset ==
  /\ pending = "agent"
  /\ LET newAgent == [id |-> AgentId(Len(pendingAgents) + 1),
                      type |-> pendingData.agentType,
                      tools |-> pendingData.tools,
                      outputFormat |-> pendingData.outputFormat,
                      active |-> TRUE]
     IN /\ agents' = Append(pendingAgents, newAgent)
        /\ issued' = issued \cup {newAgent.id}
        /\ lastOp' = Dashboard
  /\ isCreatingAgent' = FALSE
  /\ UNCHANGED <<agentType, tools, outputFormat>>
  /\ isSubmitting' = FALSE
  /\ pending' = "none"
  /\ pendingData' = EmptyAgentData
  /\ pendingAgents' = <<>>
  /\ currentStep' = 1
  /\ UNCHANGED <<formVars, pfVars, projectCreated, syncStatus, syncScheduled,
                 createDueFirst>>
  /\ toast' = TOAST_AGENT

\* mutant: the new agent is built from the form values at the time the timer
\* fires, not from the data handed to onSubmitAgent
onSubmitAgentResolve_LiveDraft ==
  /\ pending = "agent"
  /\ LET newAgent == [id |-> AgentId(Len(pendingAgents) + 1),
                      type |-> agentType,
                      tools |-> tools,
                      outputFormat |-> outputFormat,
                      active |-> TRUE]
     IN /\ agents' = Append(pendingAgents, newAgent)
        /\ issued' = issued \cup {newAgent.id}
        /\ lastOp' = Dashboard
  /\ isCreatingAgent' = FALSE
  /\ agentType' = EmptyAgentData.agentType
  /\ tools' = EmptyAgentData.tools
  /\ outputFormat' = EmptyAgentData.outputFormat
  /\ isSubmitting' = FALSE
  /\ pending' = "none"
  /\ pendingData' = EmptyAgentData
  /\ pendingAgents' = <<>>
  /\ currentStep' = 1
  /\ UNCHANGED <<formVars, pfVars, projectCreated, syncStatus, syncScheduled,
                 createDueFirst>>
  /\ toast' = TOAST_AGENT

\* onSubmitAgent after its await (the 1500 ms timer fired)
onSubmitAgentResolve ==
  /\ pending = "agent"
  /\ LET newAgent == [id |-> AgentId(Len(pendingAgents) + 1),
                      type |-> pendingData.agentType,
                      tools |-> pendingData.tools,
                      outputFormat |-> pendingData.outputFormat,
                      active |-> TRUE]
     IN /\ agents' = Append(pendingAgents, newAgent)
        /\ issued' = issued \cup {newAgent.id}
        /\ lastOp' = Dashboard
  /\ isCreatingAgent' = FALSE
  /\ agentType' = EmptyAgentData.agentType
  /\ tools' = EmptyAgentData.tools
  /\ outputFormat' = EmptyAgentData.outputFormat
  /\ isSubmitting' = FALSE
  /\ pending' = "none"
  /\ pendingData' = EmptyAgentData
  /\ pendingAgents' = <<>>
  /\ currentStep' = 1
  /\ UNCHANGED <<formVars, pfVars, projectCreated, syncStatus, syncScheduled,
                 createDueFirst>>
  /\ toast' = TOAST_AGENT

\* toggleAgentStatus, from the switch on the card of an agent of the list
toggleAgentStatus(agentId) ==
  /\ projectCreated
  /\ ~isCreatingAgent
  /\ \E i \in 1..Len(agents) : agents[i].id = agentId
  /\ agents' = [i \in 1..Len(agents) |->
                  IF agents[i].id = agentId
                    THEN [agents[i] EXCEPT !.active = ~agents[i].active]
                    ELSE agents[i]]
  /\ lastOp' = Dashboard
  /\ UNCHANGED <<formVars, pfVars, projectCreated, isCreatingAgent, isSubmitting,
                 syncStatus, pending, pendingData, pendingAgents, syncScheduled,
                 createDueFirst, agentVars, issued>>
  /\ UNCHANGED toast

\* deleteAgent, from the trash button on the card of an agent of the list
deleteAgent(agentId) ==
  /\ projectCreated
  /\ ~isCreatingAgent
  /\ \E i \in 1..Len(agents) : agents[i].id = agentId
  /\ agents' = SelectSeq(agents, LAMBDA agent : agent.id # agentId)
  /\ lastOp' = Dashboard
  /\ UNCHANGED <<formVars, pfVars, projectCreated, isCreatingAgent, isSubmitting,
                 syncStatus, pending, pendingData, pendingAgents, syncScheduled,
                 createDueFirst, agentVars, issued>>
  /\ toast' = TOAST_DELETED

\* ------------------------------------------------------------ specifications
NextConfig ==
  \/ \E s \in NameInputs : setName(s)
  \/ \E id \in DataSourceIds : handleDataSourceChange(id)
  \/ \E id \in DataSourceIds : openSportDialog(id)
  \/ \E id \in DataSourceIds : closeSportDialog(id)
  \/ \E sp \in Sports : handleSportSelect(sp)
  \/ handleConfirm
  \/ \E id \in DataSourceIds, sp \in Sports : removeSportBadge(id, sp)
  \/ \E open \in BOOLEAN : setIsApiKeyModalOpen(open)
  \/ \E s \in ApiKeyInputs : setApiKey(s)
  \/ handleApiKeySubmit
  \/ handleApiKeySubmitResolve
  \/ submitProject
  \/ onSubmitProjectResolve
  \/ syncCompleted

NextAgents ==
  \/ syncCompleted
  \/ startAgentCreation
  \/ cancelAgentCreation
  \/ nextStep
  \/ prevStep
  \/ \E t \in AgentTypes : setAgentType(t)
  \/ \E toolId \in ToolIds : toggleAgentTool(toolId)
  \/ \E formatId \in FormatIds : setAgentOutputFormat(formatId)
  \/ commitAgent
  \/ onSubmitAgentResolve
  \/ \E agentId \in AgentIds : toggleAgentStatus(agentId)
  \/ \E agentId \in AgentIds : deleteAgent(agentId)

\* the wizard up to the dashboard: project configuration, credential gate,
\* project submission and sync
SpecConfig == Init /\ [][NextConfig]_vars

\* a project as onSubmitProject leaves it: created, sync timer running
InitDashboard ==
  /\ projectName = <<"a">>
  /\ dataSources = <<MACHINA>>
  /\ sportSelections = WithEntry(EmptySelections, MACHINA, <<SportsCatalog[1]>>)
  /\ sportError = FALSE
  /\ openModals = [id \in DataSourceIds |-> FALSE]
  /\ currentDataSource = MACHINA
  /\ tempSelectedSports = <<SportsCatalog[1]>>
  /\ isApiKeyModalOpen = FALSE
  /\ apiKey = <<>>
  /\ sportradarConnected = FALSE
  /\ isLoading = FALSE
  /\ capturedDataSources = <<>>
  /\ projectCreated = TRUE
  /\ isCreatingAgent = FALSE
  /\ isSubmitting = FALSE
  /\ agents = <<>>
  /\ syncStatus = "syncing"
  /\ pending = "none"
  /\ pendingData = EmptyAgentData
  /\ pendingAgents = <<>>
  /\ syncScheduled = TRUE
  /\ createDueFirst = FALSE
  /\ agentType = NULL
  /\ tools = <<>>
  /\ outputFormat = NULL
  /\ currentStep = 1
  /\ toast = TOAST_PROJECT
  /\ issued = {}
  /\ lastOp = Op("projectCreated", NULL)

\* the dashboard: sync completion and the agent sub-flow
SpecAgents == InitDashboard /\ [][NextAgents]_vars

\* the timers of the wizard always fire: the verification (1000 ms), the
\* project creation (1500 ms) and the sync (3000 ms)
SpecConfigFair ==
  /\ SpecConfig
  /\ WF_vars(handleApiKeySubmitResolve)
  /\ WF_vars(onSubmitProjectResolve)
  /\ WF_vars(syncCompleted)

\* the sport dialog of the built-in source, as handleDialogOpen leaves it on
\* a source without sports
InitSelect ==
  /\ projectName = <<>>
  /\ dataSources = <<MACHINA>>
  /\ sportSelections = EmptySelections
  /\ sportError = ValidationEffect(<<MACHINA>>, EmptySelections)
  /\ openModals = [id \in DataSourceIds |-> id = MACHINA]
  /\ currentDataSource = MACHINA
  /\ tempSelectedSports = <<>>
  /\ isApiKeyModalOpen = FALSE
  /\ apiKey = <<>>
  /\ sportradarConnected = FALSE
  /\ isLoading = FALSE
  /\ capturedDataSources = <<>>
  /\ projectCreated = FALSE
  /\ isCreatingAgent = FALSE
  /\ isSubmitting = FALSE
  /\ agents = <<>>
  /\ syncStatus = "syncing"
  /\ pending = "none"
  /\ pendingData = EmptyAgentData
  /\ pendingAgents = <<>>
  /\ syncScheduled = FALSE
  /\ createDueFirst = FALSE
  /\ agentType = NULL
  /\ tools = <<>>
  /\ outputFormat = NULL
  /\ currentStep = 1
  /\ toast = TOAST_NONE
  /\ issued = {}
  /\ lastOp = Op("openSportDialog", MACHINA)

\* the sport dialog with its Select All button: open, edit the temporary
\* selection, cancel or confirm
NextSelect ==
  \/ \E id \in DataSourceIds : openSportDialog(id)
  \/ \E id \in DataSourceIds : closeSportDialog(id)
  \/ handleSelectAll
  \/ \E sp \in SelectSports : handleSportSelect(sp)
  \/ handleConfirm

SpecSelect == InitSelect /\ [][NextSelect]_vars

\* the agent form on its Tools step, as syncCompleted, startAgentCreation and
\* nextStep leave the dashboard of InitDashboard
InitDraft ==
  /\ projectName = <<"a">>
  /\ dataSources = <<MACHINA>>
  /\ sportSelections = WithEntry(EmptySelections, MACHINA, <<SportsCatalog[1]>>)
  /\ sportError = FALSE
  /\ openModals = [id \in DataSourceIds |-> FALSE]
  /\ currentDataSource = MACHINA
  /\ tempSelectedSports = <<SportsCatalog[1]>>
  /\ isApiKeyModalOpen = FALSE
  /\ apiKey = <<>>
  /\ sportradarConnected = FALSE
  /\ isLoading = FALSE
  /\ capturedDataSources = <<>>
  /\ projectCreated = TRUE
  /\ isCreatingAgent = TRUE
  /\ isSubmitting = FALSE
  /\ agents = <<>>
  /\ syncStatus = "completed"
  /\ pending = "none"
  /\ pendingData = EmptyAgentData
  /\ pendingAgents = <<>>
  /\ syncScheduled = FALSE
  /\ createDueFirst = FALSE
  /\ agentType = NULL
  /\ tools = <<>>
  /\ outputFormat = NULL
  /\ currentStep = 2
  /\ toast = TOAST_SYNC
  /\ issued = {}
  /\ lastOp = Dashboard

\* every selection sequence of the wizard: the temporary and the committed
\* sport selections of the dialog, and the tool selection of the agent form
NextSelections ==
  \/ NextSelect
  \/ \E toolId \in ToolIds : toggleAgentTool(toolId)

SpecSelections == (InitSelect \/ InitDraft) /\ [][NextSelections]_vars

\* the form state of the project of InitDashboard
DashboardProject ==
  /\ projectName = <<"a">>
  /\ dataSources = <<MACHINA>>
  /\ sportSelections = WithEntry(EmptySelections, MACHINA, <<SportsCatalog[1]>>)
  /\ sportError = FALSE
  /\ openModals = [id \in DataSourceIds |-> FALSE]
  /\ currentDataSource = MACHINA
  /\ tempSelectedSports = <<SportsCatalog[1]>>
  /\ isApiKeyModalOpen = FALSE
  /\ apiKey = <<>>
  /\ sportradarConnected = FALSE
  /\ isLoading = FALSE
  /\ capturedDataSources = <<>>

\* the project view, and the dashboard view once the project of
\* InitDashboard was created
NextWizard ==
  \/ NextConfig
  \/ DashboardProject /\ startAgentCreation
  \/ DashboardProject /\ cancelAgentCreation
  \/ DashboardProject /\ nextStep
  \/ DashboardProject /\ prevStep
  \/ \E t \in AgentTypes : DashboardProject /\ setAgentType(t)
  \/ \E toolId \in ToolIds : DashboardProject /\ toggleAgentTool(toolId)
  \/ \E formatId \in FormatIds : DashboardProject /\ setAgentOutputFormat(formatId)
  \/ DashboardProject /\ commitAgent
  \/ DashboardProject /\ onSubmitAgentResolve
  \/ \E agentId \in AgentIds : DashboardProject /\ toggleAgentStatus(agentId)
  \/ \E agentId \in AgentIds : DashboardProject /\ deleteAgent(agentId)

\* the wizard from the empty form to the agents of one project
SpecWizard == Init /\ [][NextWizard]_vars

\* the whole wizard
Next == NextConfig \/ NextAgents \/ NextSelections
Spec == Init /\ [][Next]_vars

\* InitDashboard is a state the whole wizard reaches
InitDashboardReached == ~InitDashboard

\* ------------------------------------------------------------ claims
\* the last operation was op(arg)
LastOpIs(name, arg) == lastOp.op = name /\ lastOp.arg = arg
\* the step being taken is op(arg)
StepIs(name, arg) == lastOp'.op = name /\ lastOp'.arg = arg

C2_FreshId ==
  [][ (pending = "agent" /\ pending' = "none")
        => agents'[Len(agents')].id \notin issued ]_vars

\* C3: the agents held in the registry have pairwise distinct ids.
C3_DistinctIds ==
  \A i, j \in 1..Len(agents) : i # j => agents[i].id # agents[j].id

\* C4: a verification that resolves after the credential dialog was closed
\* changes neither the gate nor dataSources.
C4_StaleResolutionIgnored ==
  [][ (StepIs("credentialResolved", NULL) /\ ~isApiKeyModalOpen)
        => /\ sportradarConnected' = sportradarConnected
           /\ dataSources' = dataSources ]_vars

\* C5: submitProject is accepted only where no selected, unlocked data source
\* has an empty or absent sport set.
C5_SubmitOnlyWhenValid ==
  LastOpIs("submitProject", "accepted")
    => \A id \in DataSourceIds :
         (Includes(dataSources, id) /\ IsActive(id))
           => Len(SportsOf(sportSelections, id)) > 0

\* C6: a project submit is never accepted while every data source has zero
\* sports selected: after an accepted submitProject some source has a sport.
C6_NoSubmitWithoutSports ==
  LastOpIs("submitProject", "accepted")
    => \E id \in DataSourceIds : Len(SportsOf(sportSelections, id)) > 0

C6_Witness ==
  /\ LastOpIs("submitProject", "accepted")
  /\ Len(SportsOf(sportSelections, MACHINA)) > 0
  /\ Len(SportsOf(sportSelections, SPORTRADAR)) = 0

\* validate(): some selected, unlocked source has an empty sport set
ErrorExpected(ds, sel, connected) ==
  \E id \in DataSourceIds :
    /\ Includes(ds, id)
    /\ (id = MACHINA \/ connected)
    /\ Len(SportsOf(sel, id)) = 0

\* C7: after every mutation of dataSources or sportSelections the validation
\* error is present iff some selected, unlocked source has an empty sport set.
C7_ErrorTracksSelections ==
  [][ (dataSources' # dataSources \/ sportSelections' # sportSelections)
        => (sportError' <=>
              ErrorExpected(dataSources', sportSelections', sportradarConnected'))
    ]_vars

\* C8: a toggleDataSource(id) that removes id from dataSources leaves no
\* sportSelections entry for id.
C8_RemovalPrunes ==
  [][ \A id \in DataSourceIds :
        (StepIs("toggleDataSource", id)
           /\ Includes(dataSources, id) /\ ~Includes(dataSources', id))
          => id \notin DOMAIN sportSelections' ]_vars

C8_Witness ==
  /\ LastOpIs("toggleDataSource", SPORTRADAR)
  /\ ~Includes(dataSources, SPORTRADAR)
  /\ sportradarConnected
  /\ MACHINA \in DOMAIN sportSelections

\* C9: toggleDataSource on sportradar while its gate is not Connected changes
\* neither dataSources nor sportSelections, and the sport trigger, dialog and
\* badges of sportradar are not rendered.
C9_LockedToggleNoOp ==
  [][ (StepIs("toggleDataSource", SPORTRADAR) /\ ~sportradarConnected)
        => /\ dataSources' = dataSources
           /\ sportSelections' = sportSelections
           /\ ~SportsSelectable(SPORTRADAR)' ]_vars

C9_Witness ==
  /\ LastOpIs("toggleDataSource", SPORTRADAR)
  /\ Gate = "Verifying"
  /\ ~Includes(dataSources, SPORTRADAR)

\* C10: sportradar is a member of dataSources only if its gate is Connected.
C10_MemberOnlyIfConnected ==
  Includes(dataSources, SPORTRADAR) => Gate = "Connected"

C10_Witness == Includes(dataSources, SPORTRADAR) /\ Gate = "Connected"

\* C11 (as stated): submitting a non-blank credential while the gate is Locked
\* moves it to Verifying and, the verification timer being fair, eventually
\* to Connected, never from Locked to Connected in one step; where the gate
\* becomes Connected sportradar is a member of dataSources and the validation
\* error is present, and it stays present while sportradar is selected
\* without a sport.
C11_CredentialFlow ==
  /\ [][ /\ StepIs("submitCredential", "accepted")
              => (Gate = "Locked" /\ Gate' = "Verifying")
         /\ Gate = "Locked" => Gate' # "Connected"
         /\ (Gate # "Connected" /\ Gate' = "Connected")
              => (Includes(dataSources', SPORTRADAR) /\ sportError') ]_vars
  /\ []( ( /\ Gate = "Connected"
           /\ Includes(dataSources, SPORTRADAR)
           /\ Len(SportsOf(sportSelections, SPORTRADAR)) = 0 ) => sportError )
  /\ (Gate = "Verifying") ~> (Gate = "Connected")

\* the part of C11 about the gate and dataSources alone: Locked, Verifying,
\* Connected in this order, and sportradar a member of dataSources where the
\* gate becomes Connected
C11_GatePath ==
  /\ [][ /\ StepIs("submitCredential", "accepted")
              => (Gate = "Locked" /\ Gate' = "Verifying")
         /\ Gate = "Locked" => Gate' # "Connected"
         /\ (Gate # "Connected" /\ Gate' = "Connected")
              => Includes(dataSources', SPORTRADAR) ]_vars
  /\ (Gate = "Verifying") ~> (Gate = "Connected")

\* C12 (as stated): a blank credential is rejected with a message: the gate
\* stays Locked, no verification starts, dataSources is unchanged, and a
\* message (a toast or a form error) appears.
C12_BlankRejectedWithMessage ==
  [][ StepIs("submitCredential", "rejected")
        => /\ Gate' = "Locked"
           /\ ~isLoading'
           /\ dataSources' = dataSources
           /\ (toast' # toast \/ sportError' # sportError) ]_vars

\* C12 (amended): a credential is rejected exactly when it is blank after
\* trim(), and the rejection is silent: the gate stays Locked, no verification
\* starts, and neither dataSources nor any other state, toast and form errors
\* included, changes.
C12_BlankRejectedSilently ==
  [][ /\ StepIs("submitCredential", "rejected")
           => /\ Trim(apiKey) = <<>>
              /\ Gate' = "Locked"
              /\ UNCHANGED <<formVars, pfVars, wizVars, agentVars, toast, issued>>
      /\ StepIs("submitCredential", "accepted") => Trim(apiKey) # <<>> ]_vars

C12_Witness ==
  /\ LastOpIs("submitCredential", "rejected")
  /\ apiKey = <<SP>>
  /\ Gate = "Locked"

\* C13: once the gate is Connected it is Connected in every later state.
C13_ConnectedIsTerminal == [][ Gate = "Connected" => Gate' = "Connected" ]_vars

C13_Witness ==
  /\ Gate = "Connected"
  /\ projectCreated
  /\ ~Includes(dataSources, SPORTRADAR)

\* C14: commitAgent is rejected whenever type or outputFormat is unset, it is
\* rejected for no other reason (an empty tool set does not block it), and a
\* rejected commit leaves the registry and the pending submission as they were.
C14_CommitNeedsTypeAndFormat ==
  [][ /\ StepIs("commitAgent", "rejected")
           => /\ (agentType = NULL \/ outputFormat = NULL)
              /\ agents' = agents
              /\ pending' = pending
      /\ (pending = "none" /\ pending' = "agent")
           => (agentType # NULL /\ outputFormat # NULL) ]_vars

C14_Witness ==
  /\ LastOpIs("commitAgent", "rejected")
  /\ agentType # NULL
  /\ outputFormat = NULL
  /\ Len(agents) = 1
  /\ agents[1].tools = <<>>

\* C15: an accepted commitAgent takes the draft as it is at commit, and its
\* resolution appends exactly one agent at the end of the registry, active,
\* with the type, tools and outputFormat of the commit; the agents registered
\* before are unchanged.
C15_CommitAppendsOne ==
  [][ /\ (pending = "none" /\ pending' = "agent")
           => pendingData' = [agentType |-> agentType, tools |-> tools,
                              outputFormat |-> outputFormat]
      /\ (pending = "agent" /\ pending' = "none")
           => /\ Len(agents') = Len(agents) + 1
              /\ SubSeq(agents', 1, Len(agents)) = agents
              /\ agents'[Len(agents')].active
              /\ agents'[Len(agents')].type = pendingData.agentType
              /\ agents'[Len(agents')].tools = pendingData.tools
              /\ agents'[Len(agents')].outputFormat = pendingData.outputFormat
    ]_vars

C15_Witness ==
  /\ Len(agents) = 2
  /\ agents[2].type = "chat"
  /\ agents[2].tools = <<>>
  /\ agents[2].outputFormat = "json"
  /\ agents[2].active
  /\ ~agents[1].active

\* C16: the draft's tools are all enabled catalog tools and its outputFormat
\* is unset or an enabled format; no registered agent has a disabled tool or
\* a disabled output format.
C16_NoDisabledEntries ==
  /\ \A i \in 1..Len(tools) : tools[i] \in ToolIds /\ ~ToolDisabled[tools[i]]
  /\ outputFormat = NULL
       \/ (outputFormat \in FormatIds /\ ~FormatDisabled[outputFormat])
  /\ \A a \in 1..Len(agents) :
       /\ \A i \in 1..Len(agents[a].tools) : ~ToolDisabled[agents[a].tools[i]]
       /\ ~FormatDisabled[agents[a].outputFormat]

C16_Witness ==
  /\ Len(agents) >= 1
  /\ agents[1].tools = <<"search">>
  /\ tools = <<"search">>
  /\ outputFormat = "text"
  /\ currentStep = 2

\* C17: the step of the agent sub-flow is always in 1..3; it is 1 when the
\* sub-flow is entered; nextStep adds one except at 3, prevStep subtracts one
\* except at 1; while the sub-flow stays open no step changes it by more than
\* one.
C17_StepClamped ==
  /\ [](currentStep \in 1..3)
  /\ [][ /\ (~isCreatingAgent /\ isCreatingAgent') => currentStep' = 1
         /\ nextStep
              => currentStep' = (IF currentStep = 3 THEN 3 ELSE currentStep + 1)
         /\ prevStep
              => currentStep' = (IF currentStep = 1 THEN 1 ELSE currentStep - 1)
         /\ (isCreatingAgent /\ isCreatingAgent')
              => currentStep' \in {currentStep - 1, currentStep, currentStep + 1}
       ]_vars

C17_Witness ==
  /\ isCreatingAgent
  /\ currentStep = 3
  /\ Len(agents) = 1

\* C18 (as stated): two applications of selectAll in a row leave the
\* selection empty, whatever it was before.
C18_TwiceEmpties ==
  [][ lastOp'.op = "selectAllAgain" => tempSelectedSports' = <<>> ]_vars

\* C18 (amended): two applications of selectAll in a row leave the selection
\* empty unless it was the whole universe before the first; then the first
\* clears it and the second selects the whole universe again.
C18_TwiceTogglesBack ==
  [][ lastOp'.op = "selectAllAgain"
        => tempSelectedSports' =
             (IF lastOp'.arg = "full" THEN SelectUniverse ELSE <<>>) ]_vars

C18_Witness ==
  /\ LastOpIs("selectAllAgain", "full")
  /\ tempSelectedSports = SelectUniverse

\* C19: the sync timer being fair, a project in phase Syncing eventually is
\* in phase Ready.
C19_SyncCompletes == (Phase = "Syncing") ~> (Phase = "Ready")

C19_Witness ==
  /\ Phase = "Ready"
  /\ toast = TOAST_SYNC
  /\ Gate = "Connected"

\* C20: in phase Syncing the agent sub-flow is closed and the registry is
\* empty.
C20_NoAgentsWhileSyncing ==
  Phase = "Syncing" => (~isCreatingAgent /\ agents = <<>>)

C20_Witness ==
  /\ Phase = "Syncing"
  /\ LastOpIs("startAgentCreation", "rejected")
  /\ ~isCreatingAgent

\* C21: toggleAgentStatus(id) flips the active flag of one agent, the one
\* with that id, and changes nothing else in the registry.
C21_ToggleFlipsOne ==
  [][ \A id \in AgentIds :
        toggleAgentStatus(id)
          => /\ Len(agents') = Len(agents)
             /\ \E k \in 1..Len(agents) :
                  /\ agents[k].id = id
                  /\ agents' = [agents EXCEPT ![k].active = ~agents[k].active]
    ]_vars

\* C22: deleteAgent(id) with id in the registry shortens it by exactly one:
\* one agent with that id goes, the others stay, unchanged and in order.
C22_DeleteRemovesOne ==
  [][ \A id \in AgentIds :
        deleteAgent(id)
          => /\ Len(agents') = Len(agents) - 1
             /\ \E k \in 1..Len(agents) :
                  /\ agents[k].id = id
                  /\ agents' = SubSeq(agents, 1, k - 1)
                                 \o SubSeq(agents, k + 1, Len(agents))
    ]_vars

\* C23: submitProject is not accepted for a name that is empty after
\* trimming.
C23_BlankNameRejected ==
  [][ StepIs("submitProject", "accepted") => Trim(projectName) # <<>> ]_vars

\* C24: toggling a sport in the dialog, Select All, opening and closing the
\* dialog leave sportSelections and dataSources unchanged; while a sport
\* dialog is shown only the confirmation changes sportSelections.
C24_CopyOnConfirm ==
  [][ /\ lastOp'.op \in {"toggleTempSport", "selectAll", "selectAllAgain",
                         "openSportDialog", "closeSportDialog"}
           => UNCHANGED <<sportSelections, dataSources>>
      /\ ((\E id \in DataSourceIds : SportDialogShown(id))
            /\ sportSelections' # sportSelections)
           => lastOp'.op = "confirmSportSelection"
    ]_vars

C24_Witness ==
  /\ lastOp.op = "selectAllAgain"
  /\ tempSelectedSports = <<>>
  /\ SportsOf(sportSelections, MACHINA) = <<SelectUniverse[2], SelectUniverse[1]>>

\* C25: the resolution of a verification removes no member of dataSources.
C25_ResolutionOnlyAdds ==
  [][ StepIs("credentialResolved", NULL)
        => \A id \in DataSourceIds :
             Includes(dataSources, id) => Includes(dataSources', id) ]_vars

\* C26: the resolution of an accepted commitAgent leaves the draft at its
\* defaults and the sub-flow closed, and the draft does not change while the
\* sub-flow is closed: the next creation starts from an empty form.
C26_DraftResetAfterCommit ==
  [][ /\ (pending = "agent" /\ pending' = "none")
           => /\ agentType' = NULL /\ tools' = <<>> /\ outputFormat' = NULL
              /\ ~isCreatingAgent'
      /\ ~isCreatingAgent
           => UNCHANGED <<agentType, tools, outputFormat>> ]_vars

C26_Witness ==
  /\ Len(agents) = 1
  /\ agents[1].tools = <<"search">>
  /\ isCreatingAgent
  /\ agentType = NULL /\ tools = <<>> /\ outputFormat = NULL

\* C27: opening the sport dialog of id seeds the buffer with the committed
\* sports of id (none if absent); the confirmation sets the sports of the
\* source the dialog was opened for to the buffer and leaves every other
\* source's sports as they were.
C27_SeedAndMerge ==
  [][ \A id \in DataSourceIds :
        /\ StepIs("openSportDialog", id)
             => tempSelectedSports' = SportsOf(sportSelections, id)
        /\ StepIs("confirmSportSelection", id)
             => /\ DOMAIN sportSelections' = DOMAIN sportSelections \cup {id}
                /\ sportSelections'[id] = tempSelectedSports
                /\ \A k \in DOMAIN sportSelections \ {id} :
                     sportSelections'[k] = sportSelections[k] ]_vars

C27_Witness ==
  /\ LastOpIs("confirmSportSelection", SPORTRADAR)
  /\ Len(SportsOf(sportSelections, SPORTRADAR)) = 2
  /\ Len(SportsOf(sportSelections, MACHINA)) = 1

\* C28: every key of sportSelections is a member of dataSources.
C28_NoOrphanSelections ==
  \A k \in DOMAIN sportSelections : Includes(dataSources, k)

\* a sequence without a repeated element
NoDuplicates(s) == \A i, j \in 1..Len(s) : i # j => s[i] # s[j]

\* C29: the temporary sport selection, every committed sport selection and
\* the tool selection of the agent draft hold no element twice, and an
\* element toggled on is appended at the end.
C29_NoDuplicates ==
  /\ []( /\ NoDuplicates(tempSelectedSports)
         /\ \A k \in DOMAIN sportSelections : NoDuplicates(sportSelections[k])
         /\ NoDuplicates(tools) )
  /\ [][ /\ \A sp \in SelectSports :
              (StepIs("toggleTempSport", sp) /\ ~Includes(tempSelectedSports, sp))
                => tempSelectedSports' = Append(tempSelectedSports, sp)
         /\ \A toolId \in ToolIds :
              (toggleAgentTool(toolId) /\ ~Includes(tools, toolId)
                 /\ ~ToolDisabled[toolId])
                => tools' = Append(tools, toolId) ]_vars

C29_Witness ==
  /\ lastOp.op = "toggleTempSport"
  /\ Len(tempSelectedSports) = MaxSelect
  /\ tempSelectedSports # SelectUniverse
  /\ Len(SportsOf(sportSelections, MACHINA)) = MaxSelect

\* C30: a data source that is not a member of dataSources when the
\* verification resolves is not made one by the resolution (sportradar, which
\* the resolution selects, apart).
C30_ResolutionUsesCurrentState ==
  [][ StepIs("credentialResolved", NULL)
        => \A id \in DataSourceIds \ {SPORTRADAR} :
             ~Includes(dataSources, id) => ~Includes(dataSources', id) ]_vars

\* C31: once the phase has left Configuring, dataSources and sportSelections
\* of the project never change again, also when a verification started
\* during Configuring resolves afterwards.
C31_FrozenAfterConfiguring ==
  [][ Phase # "Configuring"
        => /\ dataSources' = dataSources
           /\ sportSelections' = sportSelections ]_vars

\* C32: in phase Syncing or Ready the project has at least one data source
\* and every selected data source has at least one sport, whatever the user
\* edited between the accepted submitProject and the phase change.
C32_CreatedProjectIsValid ==
  Phase # "Configuring"
    => /\ Len(dataSources) >= 1
       /\ \A i \in 1..Len(dataSources) :
            Len(SportsOf(sportSelections, dataSources[i])) >= 1

\* C33: at most one submission is pending.  While isSubmitting no
\* submitProject, commitAgent or cancelAgentCreation is taken; isSubmitting
\* holds exactly while a submission is pending; the project is created, and
\* the sync timer scheduled, only by the resolution of the pending project
\* submission, from phase Configuring; agents grows only by one, at the
\* resolution of the pending commit.
C33_SinglePendingSubmission ==
  [][ /\ isSubmitting = (pending # "none")
      /\ isSubmitting => ~(submitProject \/ commitAgent \/ cancelAgentCreation)
      /\ (projectCreated' # projectCreated \/ (syncScheduled' /\ ~syncScheduled))
           => /\ pending = "project" /\ pending' = "none"
              /\ ~projectCreated /\ projectCreated'
              /\ ~syncScheduled /\ syncScheduled'
      /\ Len(agents') > Len(agents)
           => /\ pending = "agent" /\ pending' = "none"
              /\ Len(agents') = Len(agents) + 1 ]_vars

\* a second commit is in flight, after one project and one agent were created
C33_Witness ==
  /\ Phase = "Ready"
  /\ isSubmitting
  /\ pending = "agent"
  /\ Len(agents) = 1

\* C34: at most one credential verification is in flight.  While the gate is
\* Verifying no submitCredential is accepted and the pending verification
\* keeps what it captured until it resolves, also when the API key dialog
\* was closed and opened again.
C34_SinglePendingVerification ==
  [][ Gate = "Verifying"
        => /\ ~StepIs("submitCredential", "accepted")
           /\ isLoading' => capturedDataSources' = capturedDataSources ]_vars

\* the dialog was closed and opened again during a verification, with a key
\* to submit in the field
C34_Witness ==
  /\ Gate = "Verifying"
  /\ LastOpIs("openApiKeyDialog", NULL)
  /\ ApiDialogShown
  /\ Trim(apiKey) # <<>>

\* C35: phases only move forward.  No step leaves phase Syncing or Ready for
\* Configuring, and no step leaves Ready for Syncing, whatever the agent
\* operations.
C35_PhasesMoveForward ==
  [][ /\ Phase = "Syncing" => Phase' \in {"Syncing", "Ready"}
      /\ Phase = "Ready" => Phase' = "Ready" ]_vars

\* phase Ready after agents were created, one switched off, and a draft
\* cancelled
C35_Witness ==
  /\ Phase = "Ready"
  /\ Len(agents) = MaxAgents
  /\ ~agents[1].active
  /\ ~isCreatingAgent
  /\ agentType # NULL

\* source id has a committed sport set, and it is empty
EmptyCommitted(sel, id) == id \in DOMAIN sel /\ Len(sel[id]) = 0

\* C36: confirmSportSelection is taken only with a non-empty buffer and
\* stores no empty sport set; a committed sport set that was not empty
\* becomes empty only by the removal of a sport badge of its source.
C36_ConfirmNeedsSports ==
  [][ /\ lastOp'.op = "confirmSportSelection"
           => /\ Len(tempSelectedSports) # 0
              /\ \A id \in DataSourceIds :
                   EmptyCommitted(sportSelections', id)
                     => EmptyCommitted(sportSelections, id)
      /\ \A id \in DataSourceIds :
           (EmptyCommitted(sportSelections', id) /\ ~EmptyCommitted(sportSelections, id))
             => StepIs("removeSportBadge", id) ]_vars

\* the last badge of the built-in source was removed: its committed set,
\* stored by a confirmation, is empty
C36_Witness ==
  /\ LastOpIs("removeSportBadge", MACHINA)
  /\ EmptyCommitted(sportSelections, MACHINA)

\* C37: every startAgentCreation opens the agent form with the draft at its
\* defaults (type unset, no tools, output format unset), also after a draft
\* was cancelled.
C37_CancelledDraftDiscarded ==
  [][ (~isCreatingAgent /\ isCreatingAgent')
        => /\ agentType' = EmptyAgentData.agentType
           /\ tools' = EmptyAgentData.tools
           /\ outputFormat' = EmptyAgentData.outputFormat ]_vars

\* the members of a selection
Members(s) == {s[i] : i \in 1..Len(s)}
\* the set S with the membership of x flipped
Flipped(S, x) == IF x \in S THEN S \ {x} ELSE S \cup {x}

\* C38: toggling the same item twice in a row restores the members of the
\* selection.  Each toggle of the temporary sport selection, and each toggle
\* of an enabled tool, flips the membership of its item and of no other, and
\* a toggle of a disabled tool changes no membership; two such toggles of one
\* item in a row therefore give the members there were before the first.
C38_DoubleToggleRestores ==
  [][ /\ \A sp \in SelectSports :
           StepIs("toggleTempSport", sp)
             => Members(tempSelectedSports') = Flipped(Members(tempSelectedSports), sp)
      /\ \A toolId \in ToolIds :
           toggleAgentTool(toolId)
             => Members(tools') =
                  (IF ToolDisabled[toolId] THEN Members(tools)
                   ELSE Flipped(Members(tools), toolId)) ]_vars

\* a sport was toggled out of a selection of MaxSelect members: the second
\* toggle of it appends it behind the others
C38_Witness ==
  /\ \E sp \in SelectSports :
       /\ LastOpIs("toggleTempSport", sp)
       /\ ~Includes(tempSelectedSports, sp)
  /\ Len(tempSelectedSports) = MaxSelect - 1

====
